---- MODULE Spec2Model ----
(***************************************************************************)
(* Model of VULNERABLE_CODE_EXAMPLE.cc: the browser-side IPC handler       *)
(* GetResource, the ResourceHandle it builds, the compromised-renderer     *)
(* driver (SimulateCompromisedRenderer, main) and an untrusted Requester   *)
(* that submits arbitrary (requested_type, fallback_type) pairs.           *)
(*                                                                         *)
(* ResourceType is a scoped enum, so its underlying type is int and every  *)
(* int is a value of the type: (ResourceType)99 is well defined.  The      *)
(* model therefore represents a ResourceType by its integer value.         *)
(* A std::unique_ptr<ResourceHandle> is a sequence of length 0 (nullptr)   *)
(* or 1 (the owned handle).                                                *)
(***************************************************************************)
EXTENDS Integers, Sequences, FiniteSets

\* ---------------------------------------------------------------- bounds
\* Number of GetResource calls one untrusted Requester makes in a run.
MaxCalls == 3
\* How many out-of-range values just past the last enumerator are tried,
\* besides the driver's 99.
MaxOutOfRange == 1

\* ------------------------------------------------------- enum ResourceType
kSafe == 0
kPrivileged == 1
\* the enumerators the source declares
ResourceType == {kSafe, kPrivileged}

\* The driver's crafted arguments.
\* a request for a kind the browser can provide
crafted_request_available == kSafe
malicious_request == 99
malicious_fallback == kPrivileged

\* Values an untrusted caller can put in a ResourceType parameter.
OutOfRange == ((kPrivileged + 1) .. (kPrivileged + MaxOutOfRange))
                 \cup {malicious_request}
Submittable == ResourceType \cup OutOfRange

\* ------------------------------------------------------------------ state
VARIABLES
    pc,                     \* position of the single thread of control
    caller,                 \* "none", "main" (the driver) or "requester"
    requested_type,         \* GetResource parameter
    fallback_type,          \* GetResource parameter
    is_resource_available,  \* GetResource local
    handle,                 \* the caller's unique_ptr holding the last result
    results,                \* every completed call: arguments and result
    calls,                  \* number of GetResource calls started
    out,                    \* standard output, one entry per line
    exit_status             \* <<>> while running, <<status>> once main returned

vars == <<pc, caller, requested_type, fallback_type, is_resource_available,
          handle, results, calls, out, exit_status>>

nullptr == <<>>
make_unique(h) == <<h>>

\* ------------------------------------------------------ class ResourceHandle
ResourceHandle(t, n) == [type |-> t, name |-> n]

\* ResourceHandle::Print: the line it writes.
Describe(h) ==
    <<"Resource Handle", h.name,
      IF h.type = kSafe THEN "Safe" ELSE "Privileged">>

\* ------------------------------------------------------------ GetResource
IsResourceAvailableWrongEnumerator(requested) == requested = kPrivileged
IsResourceAvailable(requested) == requested = kSafe

GrantRequested(requested) ==
    make_unique(ResourceHandle(requested, "safe_resource.tmp"))

\* fallback re-validated, nullptr when it is not grantable
GrantFallbackValidated(fallback) ==
    IF fallback = kSafe
    THEN make_unique(ResourceHandle(fallback, "privileged_browser_process_handle"))
    ELSE nullptr
\* fallback clamped to the safe kind
GrantFallbackClamped(fallback) ==
    make_unique(ResourceHandle(kSafe, "privileged_browser_process_handle"))
\* name chosen from the granted kind instead of the branch
GrantFallbackNameByKind(fallback) ==
    make_unique(ResourceHandle(fallback,
        IF fallback = kSafe THEN "safe_resource.tmp"
        ELSE "privileged_browser_process_handle"))
\* a handle kept in a static and handed out again: the fallback branch
\* returns whatever the previous call returned
GrantFallbackCached(fallback) ==
    IF results = <<>>
    THEN make_unique(ResourceHandle(fallback, "privileged_browser_process_handle"))
    ELSE results[Len(results)].handle
GrantFallback(fallback) ==
    make_unique(ResourceHandle(fallback, "privileged_browser_process_handle"))

Init ==
    /\ pc = "start"
    /\ caller = "none"
    /\ requested_type = kSafe
    /\ fallback_type = kSafe
    /\ is_resource_available = FALSE
    /\ handle = nullptr
    /\ results = <<>>
    /\ calls = 0
    /\ out = <<>>
    /\ exit_status = <<>>

\* The call itself: arguments are bound and control enters GetResource.
Call(req, fb) ==
    /\ requested_type' = req
    /\ fallback_type' = fb
    /\ calls' = calls + 1
    /\ pc' = "GetResource"

\* lines 44-47: trace line, then the availability check
GetResourceCheck ==
    /\ pc = "GetResource"
    /\ out' = Append(out, <<"[Browser Process] Received request for resource.">>)
    /\ is_resource_available' = IsResourceAvailable(requested_type)
    /\ pc' = "GetResource_branch"
    /\ UNCHANGED <<caller, requested_type, fallback_type, handle, results,
                   calls, exit_status>>

\* The return: the result moves into the caller's `handle`.
Return(h) ==
    /\ handle' = h
    /\ results' = Append(results, [requested |-> requested_type,
                                   fallback |-> fallback_type,
                                   handle |-> h])
    /\ pc' = IF caller = "main" THEN "SimulateCompromisedRenderer_received"
             ELSE "requester_idle"
    /\ UNCHANGED <<caller, requested_type, fallback_type,
                   is_resource_available, calls, exit_status>>

\* lines 49-51
GetResourceGrant ==
    /\ pc = "GetResource_branch"
    /\ is_resource_available
    /\ out' = Append(out,
          <<"[Browser Process] Requested resource is available. Granting.">>)
    /\ Return(GrantRequested(requested_type))

\* lines 52-60
GetResourceFallback ==
    /\ pc = "GetResource_branch"
    /\ ~is_resource_available
    /\ out' = Append(out,
          <<"[Browser Process] WARNING: Requested resource not available. Granting fallback.">>)
    /\ Return(GrantFallback(fallback_type))

\* ------------------------------------------------------------- the driver
\* line 87-88
main ==
    /\ pc = "start"
    /\ caller' = "main"
    /\ pc' = "SimulateCompromisedRenderer"
    /\ UNCHANGED <<requested_type, fallback_type, is_resource_available,
                   handle, results, calls, out, exit_status>>

\* lines 65-77
SimulateCompromisedRenderer ==
    /\ pc = "SimulateCompromisedRenderer"
    /\ out' = out \o << <<"[Renderer Process] Attacker has control.">>,
                        <<"[Renderer Process] Crafting malicious IPC message...">>,
                        <<"[Renderer Process] Sending IPC to browser">> >>
    /\ Call(malicious_request, malicious_fallback)
    /\ UNCHANGED <<caller, is_resource_available, handle, results, exit_status>>

\* lines 79-85
SimulateCompromisedRendererReceived ==
    /\ pc = "SimulateCompromisedRenderer_received"
    /\ out' = out \o << <<"[Renderer Process] Received handle from browser!">>,
                        Describe(handle[1]) >>
              \o (IF handle[1].type = kPrivileged
                  THEN << <<"[Renderer Process] SUCCESS. Sandbox escape achieved.">> >>
                  ELSE <<>>)
    /\ pc' = "main_return"
    /\ UNCHANGED <<caller, requested_type, fallback_type,
                   is_resource_available, handle, results, calls, exit_status>>

\* line 89
mainReturn ==
    /\ pc = "main_return"
    /\ exit_status' = <<0>>
    /\ pc' = "exit"
    /\ UNCHANGED <<caller, requested_type, fallback_type,
                   is_resource_available, handle, results, calls, out>>

\* ---------------------------------------------------- untrusted Requester
\* Any (requested, fallback) pair, in range or not, any number of times.
Requester ==
    /\ pc \in {"start", "requester_idle"}
    /\ calls < MaxCalls
    /\ caller' = "requester"
    /\ \E req \in Submittable, fb \in Submittable : Call(req, fb)
    /\ UNCHANGED <<is_resource_available, handle, results, out, exit_status>>

ProgramStep ==
    \/ main
    \/ SimulateCompromisedRenderer
    \/ GetResourceCheck
    \/ GetResourceGrant
    \/ GetResourceFallback
    \/ SimulateCompromisedRendererReceived
    \/ mainReturn

Next ==
    \/ ProgramStep
    \/ Requester

Spec == Init /\ [][Next]_vars

\* The program is one sequential thread: a step that can be taken is taken.
FairSpec == Spec /\ WF_vars(ProgramStep)

\* ------------------------------------------------------------ properties
Completed == 1 .. Len(results)
InGetResource == pc \in {"GetResource", "GetResource_branch"}
\* the kinds carried by a returned pointer: empty for nullptr
Kinds(p) == {p[k].type : k \in 1 .. Len(p)}
Names(p) == {p[k].name : k \in 1 .. Len(p)}
BranchLines ==
    {k \in 1 .. Len(out) :
        out[k] \in {<<"[Browser Process] Requested resource is available. Granting.">>,
                    <<"[Browser Process] WARNING: Requested resource not available. Granting fallback.">>}}
\* Section 4.1's state machine, read off the call's progress.
CallState(i) ==
    IF i > calls THEN "NotStarted"
    ELSE IF i > Len(results) THEN "Unresolved"
    ELSE IF results[i].handle # nullptr THEN "Granted"
    ELSE "Failed"

\* C1: no Handle handed back to an untrusted caller (the compromised
\* renderer or the Requester) has kind Privileged.
C1_SensitivityInvariant ==
    \A i \in Completed : kPrivileged \notin Kinds(results[i].handle)

\* C2: every completed call with requested # Safe and fallback = Privileged
\* returned a Handle of kind Privileged.
C2_FlawCharacterization ==
    \A i \in Completed :
        (results[i].requested # kSafe /\ results[i].fallback = kPrivileged)
            => Kinds(results[i].handle) = {kPrivileged}
C2_Witness ==
    /\ \E i \in Completed : /\ results[i].requested = kPrivileged
                            /\ results[i].fallback = kPrivileged
    /\ \E i \in Completed : /\ results[i].requested \in OutOfRange
                            /\ results[i].fallback = kPrivileged
                            /\ Kinds(results[i].handle) = {kPrivileged}

\* C3: every completed call with requested = Safe returned a Handle of kind
\* Safe, whatever the fallback was.
C3_SafePath ==
    \A i \in Completed :
        results[i].requested = kSafe => Kinds(results[i].handle) = {kSafe}
C3_Witness ==
    /\ \E i \in Completed : /\ results[i].requested = kSafe
                            /\ results[i].fallback = kPrivileged
                            /\ Kinds(results[i].handle) = {kSafe}
    /\ \E i \in Completed : /\ results[i].requested = kSafe
                            /\ results[i].fallback \in OutOfRange

\* C4: every call returns, and returns exactly one non-null Handle: no call
\* ends in nullptr or any other failure outcome.
C4_Total ==
    /\ \A i \in Completed : Len(results[i].handle) = 1
    /\ ~InGetResource => Len(results) = calls
    /\ InGetResource => Len(results) = calls - 1
C4_Witness ==
    \E i \in Completed : /\ results[i].requested \in OutOfRange
                         /\ results[i].fallback \in OutOfRange
                         /\ results[i].handle # nullptr

\* C5: two completed calls with the same (requested, fallback) returned
\* Handles of the same kind, whatever was called before or between them.
C5_Idempotent ==
    \A i, j \in Completed :
        (/\ results[i].requested = results[j].requested
         /\ results[i].fallback = results[j].fallback)
            => Kinds(results[i].handle) = Kinds(results[j].handle)
C5_Witness ==
    /\ Len(results) = 3
    /\ results[1].requested = results[3].requested
    /\ results[1].fallback = results[3].fallback
    /\ ~IsResourceAvailable(results[1].requested)
    /\ Kinds(results[2].handle) # Kinds(results[1].handle)

\* C6: the driver calls GetResource once, with (99, Privileged), gets a
\* Privileged Handle, prints the sandbox-escape line, and always ends with
\* exit status 0.
C6_Driver ==
    /\ [](caller = "main" =>
            /\ calls <= 1
            /\ calls = 1 => /\ requested_type = 99
                            /\ fallback_type = kPrivileged)
    /\ []((caller = "main" /\ pc \in {"main_return", "exit"}) =>
            /\ calls = 1
            /\ Kinds(handle) = {kPrivileged}
            /\ \E k \in 1 .. Len(out) :
                 out[k] = <<"[Renderer Process] SUCCESS. Sandbox escape achieved.">>)
    /\ [](exit_status \in {<<>>, <<0>>})
    /\ [](pc = "exit" => exit_status = <<0>>)
    /\ (caller = "main" ~> (pc = "exit" /\ exit_status = <<0>>))
C6_Witness ==
    /\ caller = "main"
    /\ pc = "exit"
    /\ calls = 1
    /\ exit_status = <<0>>

\* C7: every completed call with requested # Safe returned a Handle whose
\* kind is the caller's fallback, unvalidated.
C7_FallbackGranted ==
    \A i \in Completed :
        results[i].requested # kSafe
            => Kinds(results[i].handle) = {results[i].fallback}
C7_Witness ==
    /\ \E i \in Completed : /\ results[i].requested = malicious_request
                            /\ results[i].fallback = kSafe
                            /\ Kinds(results[i].handle) = {kSafe}
    /\ \E i \in Completed : /\ results[i].requested # kSafe
                            /\ results[i].fallback \in OutOfRange

\* C8: each call goes Unresolved -> Granted and nowhere else, reaches
\* Granted, stays Granted, and ran exactly one branch building one Handle.
C8_StateMachine ==
    /\ [][\A i \in 1 .. MaxCalls :
            /\ CallState(i) = "Unresolved"
                 => CallState(i)' \in {"Unresolved", "Granted"}
            /\ CallState(i) = "Granted" => CallState(i)' = "Granted"
            /\ CallState(i) = "NotStarted"
                 => CallState(i)' \in {"NotStarted", "Unresolved"}]_vars
    /\ [](/\ Cardinality(BranchLines) = Len(results)
          /\ \A i \in Completed : Len(results[i].handle) = 1)
    /\ \A i \in 1 .. MaxCalls :
          (CallState(i) = "Unresolved") ~> (CallState(i) = "Granted")
C8_Witness ==
    /\ CallState(1) = "Granted"
    /\ CallState(2) = "Unresolved"
    /\ pc = "GetResource_branch"

\* C9: every returned Handle's kind is one of the declared enumerators
\* {Safe, Privileged}.
C9_ClosedKind ==
    \A i \in Completed : Kinds(results[i].handle) \subseteq ResourceType

\* C10: the Handle's name follows the branch: "safe_resource.tmp" exactly
\* when requested = Safe, "privileged_browser_process_handle" otherwise.
C10_NameByBranch ==
    \A i \in Completed :
        Names(results[i].handle) =
            {IF results[i].requested = kSafe THEN "safe_resource.tmp"
             ELSE "privileged_browser_process_handle"}
C10_Witness ==
    /\ \E i \in Completed : /\ results[i].requested # kSafe
                            /\ results[i].fallback = kSafe
                            /\ Kinds(results[i].handle) = {kSafe}
                            /\ Names(results[i].handle)
                                 = {"privileged_browser_process_handle"}
    /\ \E i \in Completed : /\ results[i].requested = kSafe
                            /\ Names(results[i].handle) = {"safe_resource.tmp"}

====
